---- MODULE Spec2Model ----
(***************************************************************************)
(* Model of server/audio_processor.py: NeuroAudioGenerator (thz_to_hz,     *)
(* generate_tone, add_frequencies, save_audio) and main.                   *)
(*                                                                         *)
(* Numbers.  A terahertz value is held in fixed point, as an integer       *)
(* number of 10^-9 THz; a hertz value is an integer number of Hz.  Floats  *)
(* that are not finite (nan, +inf, -inf) and values that are no int or     *)
(* float are kept apart by the fields "type" and "kind".                   *)
(*                                                                         *)
(* Audio.  An AudioSegment is its frame count plus the first NumSamples    *)
(* 16-bit samples of its data: overlay works sample by sample, so a        *)
(* window of the buffer behaves as the whole buffer does.                  *)
(***************************************************************************)
EXTENDS Integers, Sequences, FiniteSets, TLC

\* ---------------------------------------------------------------- Config
TOTAL_DURATION_SECONDS == 30
MIN_FREQUENCY_HZ == 18000
MAX_FREQUENCY_HZ == 22000
SAMPLE_RATE == 44100

\* thz * 1e12, for thz counted in units of 10^-9 THz: 1000 Hz per unit.
HZ_PER_THZ_UNIT == 1000

\* ---------------------------------------------------------------- bounds
\* Longest list over all kinds of items.
MaxFreqs == 3
\* Longest list of in-band tones (long enough for the mix to leave 16 bits).
MaxBand == 5
\* Number of leading samples of each buffer that the model keeps.
NumSamples == 7

\* ---------------------------------------------------------------- values
\* What the encoder does once export is called: it raises ("raises"), or returns
\* having left no file ("missing"), an empty file ("empty") or the mp3 ("written").
EncoderOutcomes == {"written", "empty", "missing", "raises"}

Num(t, v) == [type |-> t, kind |-> "finite", val |-> v]
NaN == [type |-> "float", kind |-> "nan", val |-> 0]
PosInf == [type |-> "float", kind |-> "posinf", val |-> 0]
NegInf == [type |-> "float", kind |-> "neginf", val |-> 0]
Text == [type |-> "str", kind |-> "text", val |-> 0]

\* isinstance(thz, (int, float))
IsIntOrFloat(x) == x.type \in {"int", "float"}

\* The items of the lists: THz values in units of 10^-9 THz.
\*   18, 20   -> 18000 Hz, 20000 Hz: inside the band
\*   18000    -> 0.000018 THz = 18 MHz: above the band
\*   0, -20   -> at or below zero: below the band
\*   a numpy.float32 is a number that is neither an int nor a float
BandItems == {Num("float", 18), Num("float", 20)}
Items ==
    BandItems \cup
    { Num("float", 18000), Num("int", 0), Num("float", -20),
      NaN, PosInf, NegInf, Text, Num("float32", 20) }

SeqsUpTo(S, n) == UNION {[1..k -> S] : k \in 0..n}
Lists == SeqsUpTo(Items, MaxFreqs) \cup SeqsUpTo(BandItems, MaxBand)

\* Outcome of a call: a value, or an exception.
Ok(v) == [ok |-> TRUE, exc |-> "none", val |-> v]
Raise(e) == [ok |-> FALSE, exc |-> e, val |-> Num("float", 0)]

\* ------------------------------------------------------------ thz_to_hz
\* Variant: a validation that also rejects the infinities.
thz_to_hz_rejects_nonfinite(thz) ==
    IF ~IsIntOrFloat(thz) \/ thz.kind # "finite"
    THEN Raise("ValueError")
    ELSE Ok(Num("float", thz.val * HZ_PER_THZ_UNIT))

\* raise ValueError unless thz is an int or a float and not nan; else thz * 1e12
thz_to_hz(thz) ==
    IF ~IsIntOrFloat(thz) \/ thz.kind = "nan"
    THEN Raise("ValueError")
    ELSE IF thz.kind = "finite"
         THEN Ok(Num("float", thz.val * HZ_PER_THZ_UNIT))
         ELSE Ok(thz)

\* ---------------------------------------------------------------- clamp
\* a < b on the floats that are not nan
Less(a, b) ==
    \/ a.kind = "neginf" /\ b.kind # "neginf"
    \/ a.kind # "posinf" /\ b.kind = "posinf"
    \/ a.kind = "finite" /\ b.kind = "finite" /\ a.val < b.val

\* Python's max(a, b) and min(a, b): the first argument unless the second beats it.
PyMax(a, b) == IF Less(a, b) THEN b ELSE a
PyMin(a, b) == IF Less(b, a) THEN b ELSE a

\* Variant: min and max exchanged.
clamp_swapped(x) ==
    PyMax(PyMin(x, Num("int", MIN_FREQUENCY_HZ)), Num("int", MAX_FREQUENCY_HZ))

\* min(max(frequency_hz, MIN_FREQUENCY_HZ), MAX_FREQUENCY_HZ)
clamp(x) ==
    PyMin(PyMax(x, Num("int", MIN_FREQUENCY_HZ)), Num("int", MAX_FREQUENCY_HZ))

InBand(x) ==
    /\ x.kind = "finite"
    /\ MIN_FREQUENCY_HZ <= x.val
    /\ x.val <= MAX_FREQUENCY_HZ

\* -------------------------------------------------------------- segments
\* 16-bit mono: AudioSegment.silent and Sine both build 2-byte samples.
sample_width == 2
MaxSample == 2^(8 * sample_width - 1) - 1
MinSample == -(2^(8 * sample_width - 1))

\* int(frame_rate * (duration / 1000.0))
FrameCount(frame_rate, duration_ms) == (frame_rate * duration_ms) \div 1000

Window(frame_count) == IF frame_count < NumSamples THEN frame_count ELSE NumSamples

\* AudioSegment.silent(duration, frame_rate)
silent(duration_ms, frame_rate) ==
    LET n == FrameCount(frame_rate, duration_ms)
    IN  [frame_count |-> n, frame_rate |-> frame_rate,
         data |-> [k \in 1..Window(n) |-> 0]]

\* len(segment): round(1000 * frame_count / frame_rate), in milliseconds
SegmentLenMs(seg) ==
    LET p == 1000 * seg.frame_count
        q == p \div seg.frame_rate
        r == p % seg.frame_rate
    IN  IF 2 * r > seg.frame_rate \/ (2 * r = seg.frame_rate /\ q % 2 = 1)
        THEN q + 1
        ELSE q

\* int(sin(2*pi*freq*n / 44100) * 32767 * 10^(-10/20)) for n = 0..11:
\* the samples Sine(freq, sample_rate=44100) yields at volume -10 dB.
SineTable ==
    (18000 :> <<0, 5652, -9474, 10229, -7670, 2628, 3265, -8101, 10313, -9186, 5084, 663>>) @@
    (20000 :> <<0, 2983, -5714, 7961, -9533, 10298, -10191, 9220, -7469, 5084, -2269, -737>>) @@
    (22000 :> <<0, 73, -147, 221, -295, 368, -442, 516, -590, 663, -737, 811>>)

\* Sine(freq, sample_rate).to_audio_segment(duration, volume)
Sine(freq, duration_ms) ==
    LET n == FrameCount(SAMPLE_RATE, duration_ms)
    IN  [frame_count |-> n, frame_rate |-> SAMPLE_RATE,
         data |-> [k \in 1..Window(n) |-> SineTable[freq.val][k]]]

\* audioop.add on one pair of samples: the sum, truncated to the sample range
add(a, b) ==
    IF a + b > MaxSample THEN MaxSample
    ELSE IF a + b < MinSample THEN MinSample
    ELSE a + b

\* seg.overlay(tone): position 0, once; the result is as long as seg
overlay(seg, t) ==
    [seg EXCEPT !.data = [k \in 1..Len(seg.data) |->
                             IF k <= t.frame_count
                             THEN add(seg.data[k], t.data[k])
                             ELSE seg.data[k]]]

\* -------------------------------------------------------- generate_tone
\* Variant: the duration handed on in seconds instead of milliseconds.
generate_tone_seconds(frequency_hz, duration_ms, synth_ok) ==
    IF synth_ok
    THEN Ok([freq |-> clamp(frequency_hz),
             seg |-> Sine(clamp(frequency_hz), duration_ms \div 1000)])
    ELSE Raise("SynthesisError")

\* synth_ok = FALSE: Sine(...).to_audio_segment raised (logged, re-raised)
generate_tone(frequency_hz, duration_ms, synth_ok) ==
    IF synth_ok
    THEN Ok([freq |-> clamp(frequency_hz),
             seg |-> Sine(clamp(frequency_hz), duration_ms)])
    ELSE Raise("SynthesisError")

\* ---------------------------------------------------------------- state
VARIABLES
    caller,         \* "api": the generator's methods are called; "main": main() runs
    cells,          \* main: the cells of the THz column of the spreadsheet
    freqs,          \* the list given to add_frequencies
    pc,             \* where the caller is
    i,              \* add_frequencies: number of items the loop has visited
    audio_segment,  \* self.audio_segment
    log,            \* add_frequencies: per visited item, "ok" or the error logged
    hz,             \* the last call of thz_to_hz: its argument and outcome
    tone,           \* the last tone generate_tone returned
    save_result,    \* save_audio: "not_called", "returned" or the error raised
    artifact,       \* the file at output_path: "absent", "empty" or "written"
    exports,        \* number of times the encoder (export) has run
    raised,         \* main: the exception caught by its handler
    stdout,         \* main: the JSON document printed
    exit_code       \* main: -1 while running, then the process's exit code

vars == <<caller, cells, freqs, pc, i, audio_segment, log, hz, tone,
          save_result, artifact, exports, raised, stdout, exit_code>>

NoCall == [called |-> FALSE, arg |-> Num("float", 0), res |-> Raise("none")]
NoTone == [made |-> FALSE, freq |-> Num("float", 0), frame_count |-> 0]
NoOutput ==
    [status |-> "none", error |-> "none",
     frequency_count |-> 0, frequency_min |-> 0, frequency_max |-> 0]

\* What a cell of the spreadsheet can hold: a number, nothing (nan) or text.
CellItems == Items \ {PosInf, NegInf, Num("float32", 20)}

\* NeuroAudioGenerator.__init__
NewSegment == silent(TOTAL_DURATION_SECONDS * 1000, SAMPLE_RATE)

Init ==
    /\ caller \in {"api", "main"}
    /\ \/ caller = "api" /\ pc = "ready" /\ freqs \in Lists /\ cells = <<>>
       \/ caller = "main" /\ pc = "load" /\ freqs = <<>>
          /\ cells \in SeqsUpTo(CellItems, MaxFreqs)
    /\ i = 0
    /\ audio_segment = NewSegment
    /\ log = <<>>
    /\ hz = NoCall
    /\ tone = NoTone
    /\ save_result = "not_called"
    /\ artifact = "absent"
    /\ exports = 0
    /\ raised = "none"
    /\ stdout = NoOutput
    /\ exit_code = -1

\* ------------------------------------------------------ load_frequencies
\* df[REQUIRED_EXCEL_COLUMN].dropna().values
RECURSIVE dropna(_)
dropna(col) ==
    IF col = <<>> THEN <<>>
    ELSE IF Head(col).kind = "nan" THEN dropna(Tail(col))
    ELSE <<Head(col)>> \o dropna(Tail(col))

\* readable = FALSE: the file is missing, no engine reads it, or it has no THz column
load_frequencies(col, readable) ==
    IF ~readable \/ dropna(col) = <<>>
    THEN Raise("Could not read Excel file")
    ELSE [ok |-> TRUE, exc |-> "none", val |-> dropna(col)]

LoadFrequencies ==
    /\ pc = "load"
    /\ \E readable \in BOOLEAN :
        LET r == load_frequencies(cells, readable)
        IN  IF r.ok
            THEN /\ freqs' = r.val
                 /\ pc' = "adding"
                 /\ raised' = raised
            ELSE /\ freqs' = freqs
                 /\ pc' = "except"
                 /\ raised' = r.exc
    /\ UNCHANGED <<caller, cells, i, audio_segment, log, hz, tone,
                   save_result, artifact, exports, stdout, exit_code>>

\* ------------------------------------------------------- add_frequencies
CallAddFrequencies ==
    /\ caller = "api"
    /\ pc = "ready"
    /\ pc' = "adding"
    /\ UNCHANGED <<caller, cells, freqs, i, audio_segment, log, hz, tone,
                   save_result, artifact, exports, raised, stdout, exit_code>>

\* Variant: "break", which leaves the loop.
AfterItemErrorBreak(k, total) == total

\* The except clause of the loop: "continue" goes on with item k + 1.
AfterItemError(k, total) == k

\* One iteration of the loop, on item i + 1.
AddFrequenciesStep ==
    /\ pc = "adding"
    /\ i < Len(freqs)
    /\ \E synth_ok \in BOOLEAN :
        LET thz == freqs[i + 1]
            r1 == thz_to_hz(thz)
            r2 == IF r1.ok
                  THEN generate_tone(r1.val, TOTAL_DURATION_SECONDS * 1000, synth_ok)
                  ELSE r1
        IN  /\ hz' = [called |-> TRUE, arg |-> thz, res |-> r1]
            /\ IF r2.ok
               THEN /\ audio_segment' = overlay(audio_segment, r2.val.seg)
                    /\ tone' = [made |-> TRUE, freq |-> r2.val.freq,
                                frame_count |-> r2.val.seg.frame_count]
                    /\ log' = Append(log, "ok")
                    /\ i' = i + 1
               ELSE /\ audio_segment' = audio_segment
                    /\ tone' = tone
                    /\ log' = Append(log, r2.exc)
                    /\ i' = AfterItemError(i + 1, Len(freqs))
    /\ UNCHANGED <<caller, cells, freqs, pc, save_result, artifact, exports,
                   raised, stdout, exit_code>>

AddFrequenciesReturn ==
    /\ pc = "adding"
    /\ i >= Len(freqs)
    /\ pc' = "added"
    /\ UNCHANGED <<caller, cells, freqs, i, audio_segment, log, hz, tone,
                   save_result, artifact, exports, raised, stdout, exit_code>>

\* ------------------------------------------------------------ save_audio
save_audio(seg, enc) ==
    IF SegmentLenMs(seg) = 0
    THEN [exc |-> "No audio data to export", artifact |-> "absent", ran |-> FALSE]
    ELSE IF enc = "raises"
    THEN [exc |-> "CouldntEncodeError", artifact |-> "empty", ran |-> TRUE]
    ELSE IF enc = "missing"
    THEN [exc |-> "Audio file was not created", artifact |-> "absent", ran |-> TRUE]
    ELSE [exc |-> "none", artifact |-> enc, ran |-> TRUE]

\* Variant: the error of save_audio is swallowed and main goes on.
MainAfterSaveSwallowed(exc) == "pdf"

\* main: the call of save_audio sits in the try block of main.
MainAfterSave(exc) == IF exc = "none" THEN "pdf" ELSE "except"

SaveAudio ==
    /\ \/ caller = "api" /\ pc \in {"ready", "added"}
       \/ caller = "main" /\ pc = "added"
    /\ \E enc \in EncoderOutcomes :
        LET r == save_audio(audio_segment, enc)
        IN  /\ save_result' = IF r.exc = "none" THEN "returned" ELSE r.exc
            /\ artifact' = r.artifact
            /\ exports' = exports + (IF r.ran THEN 1 ELSE 0)
            /\ IF caller = "api"
               THEN pc' = "saved" /\ raised' = raised
               ELSE /\ pc' = MainAfterSave(r.exc)
                    /\ raised' = IF r.exc = "none" THEN raised ELSE r.exc
    /\ UNCHANGED <<caller, cells, freqs, i, audio_segment, log, hz, tone,
                   stdout, exit_code>>

\* ------------------------------------------------------------------ main
\* generate_pdf_report: numpy's statistics and histogram need finite numbers;
\* io_ok = FALSE: writing the PDF failed.
generate_pdf_report(frequencies, io_ok) ==
    /\ io_ok
    /\ frequencies # <<>>
    /\ \A k \in 1..Len(frequencies) :
          IsIntOrFloat(frequencies[k]) /\ frequencies[k].kind = "finite"

GeneratePdfReport ==
    /\ pc = "pdf"
    /\ \E io_ok \in BOOLEAN :
        IF generate_pdf_report(freqs, io_ok)
        THEN pc' = "result" /\ raised' = raised
        ELSE pc' = "except" /\ raised' = "PdfError"
    /\ UNCHANGED <<caller, cells, freqs, i, audio_segment, log, hz, tone,
                   save_result, artifact, exports, stdout, exit_code>>

RECURSIVE CountOk(_)
CountOk(l) ==
    IF l = <<>> THEN 0
    ELSE (IF Head(l) = "ok" THEN 1 ELSE 0) + CountOk(Tail(l))

\* Variant: the number of items overlaid.
frequency_count_processed(frequencies, l) == CountOk(l)

\* 'frequency_count': len(frequencies)
frequency_count(frequencies, l) == Len(frequencies)

\* np.min(frequencies), np.max(frequencies)
np_min(frequencies) ==
    CHOOSE m \in {frequencies[k].val : k \in 1..Len(frequencies)} :
        \A k \in 1..Len(frequencies) : m <= frequencies[k].val

np_max(frequencies) ==
    CHOOSE m \in {frequencies[k].val : k \in 1..Len(frequencies)} :
        \A k \in 1..Len(frequencies) : m >= frequencies[k].val

EmitResult ==
    /\ pc = "result"
    /\ stdout' = [status |-> "success", error |-> "none",
                  frequency_count |-> frequency_count(freqs, log),
                  frequency_min |-> np_min(freqs),
                  frequency_max |-> np_max(freqs)]
    /\ exit_code' = 0
    /\ pc' = "exit"
    /\ UNCHANGED <<caller, cells, freqs, i, audio_segment, log, hz, tone,
                   save_result, artifact, exports, raised>>

\* except Exception as e: print the failure, sys.exit(1)
MainExcept ==
    /\ pc = "except"
    /\ stdout' = [NoOutput EXCEPT !.status = "failed", !.error = raised]
    /\ exit_code' = 1
    /\ pc' = "exit"
    /\ UNCHANGED <<caller, cells, freqs, i, audio_segment, log, hz, tone,
                   save_result, artifact, exports, raised>>

Next ==
    \/ LoadFrequencies
    \/ CallAddFrequencies
    \/ AddFrequenciesStep
    \/ AddFrequenciesReturn
    \/ SaveAudio
    \/ GeneratePdfReport
    \/ EmitResult
    \/ MainExcept

Spec == Init /\ [][Next]_vars

\* ================================================================ claims

\* The tone add_frequencies overlays for an item that passes both steps.
ToneOf(thz) ==
    generate_tone(thz_to_hz(thz).val, TOTAL_DURATION_SECONDS * 1000, TRUE).val.seg

\* The items of list l whose log entry is "ok", in order.
RECURSIVE Contributors(_, _)
Contributors(l, lg) ==
    IF l = <<>> \/ lg = <<>> THEN <<>>
    ELSE (IF Head(lg) = "ok" THEN <<Head(l)>> ELSE <<>>)
         \o Contributors(Tail(l), Tail(lg))

\* A segment with the tones of the items of l overlaid on it, in order.
RECURSIVE MixOf(_, _)
MixOf(seg, l) ==
    IF l = <<>> THEN seg ELSE MixOf(overlay(seg, ToneOf(Head(l))), Tail(l))

\* thz_to_hz raises for this item.
Invalid(thz) == ~IsIntOrFloat(thz) \/ thz.kind = "nan"

\* C1: add_frequencies returns normally for every list; every item is visited,
\* those after a failing item included; an item is skipped with a ValueError
\* exactly when thz_to_hz rejects it; and the master buffer is the fresh buffer
\* with the tones of exactly the unskipped items overlaid.
AddFrequenciesSkipsFailures ==
    /\ pc = "adding" => raised = "none" /\ Len(log) = i /\ i <= Len(freqs)
    /\ pc = "added" =>
        /\ raised = "none"
        /\ Len(log) = Len(freqs)
        /\ \A k \in 1..Len(freqs) :
              /\ log[k] \in {"ok", "ValueError", "SynthesisError"}
              /\ (log[k] = "ValueError") <=> Invalid(freqs[k])
        /\ audio_segment = MixOf(NewSegment, Contributors(freqs, log))

\* C1 witness: a rejected item and a failed synthesis, each followed by an item
\* that was overlaid.
AddFrequenciesSkipsFailuresWitness ==
    /\ pc = "added"
    /\ Len(log) = 3
    /\ log[1] = "ValueError"
    /\ log[2] = "SynthesisError"
    /\ log[3] = "ok"
    /\ audio_segment # NewSegment

\* C2: save_audio on a buffer that has received no tone fails with the
\* empty-audio error before the encoder runs, and leaves no artifact.
SilentExportFails ==
    (save_result # "not_called" /\ CountOk(log) = 0) =>
        /\ save_result = "No audio data to export"
        /\ exports = 0
        /\ artifact = "absent"

\* C3: when save_audio returns normally the artifact exists and is not empty.
SavedArtifactIsNonEmpty ==
    save_result = "returned" => artifact = "written"

\* add_frequencies(l) on a fresh generator, when no synthesis fails.
RECURSIVE add_frequencies(_, _)
add_frequencies(seg, l) ==
    IF l = <<>> THEN seg
    ELSE IF Invalid(Head(l)) THEN add_frequencies(seg, Tail(l))
    ELSE add_frequencies(overlay(seg, ToneOf(Head(l))), Tail(l))

Perms(n) == {f \in [1..n -> 1..n] : \A a, b \in 1..n : f[a] = f[b] => a = b}

\* C4: the final master buffer is the same for a list and for each of its
\* permutations.
OverlayCommutative ==
    (pc = "added" /\ \A k \in 1..Len(log) : log[k] # "SynthesisError") =>
        \A f \in Perms(Len(freqs)) :
            add_frequencies(NewSegment, [k \in 1..Len(freqs) |-> freqs[f[k]]])
                = audio_segment

\* C5: the master buffer always holds TOTAL_DURATION_SECONDS * SAMPLE_RATE
\* samples, and so does every tone overlaid onto it.
SampleCountInvariant ==
    /\ audio_segment.frame_count = TOTAL_DURATION_SECONDS * SAMPLE_RATE
    /\ Len(audio_segment.data) = NumSamples
    /\ tone.made => tone.frame_count = TOTAL_DURATION_SECONDS * SAMPLE_RATE

\* C5 witness: tones were overlaid and an item was skipped.
SampleCountInvariantWitness ==
    /\ pc = "added"
    /\ tone.made
    /\ CountOk(log) >= 2
    /\ CountOk(log) < Len(log)

\* The sum, in the integers, of sample n of the tones of the items of l.
RECURSIVE TrueSum(_, _)
TrueSum(l, n) ==
    IF l = <<>> THEN 0 ELSE ToneOf(Head(l)).data[n] + TrueSum(Tail(l), n)

\* C6: every master sample is the exact sum of the samples of the tones
\* overlaid so far, also when that sum is outside the 16-bit sample range.
OverlayIsExactSum ==
    \A n \in 1..Len(audio_segment.data) :
        audio_segment.data[n] = TrueSum(Contributors(freqs, log), n)

\* C7: a successful run reports the length, the minimum and the maximum of the
\* loaded list, in THz, whatever was clamped or skipped.
ResultReflectsLoadedList ==
    stdout.status = "success" =>
        /\ freqs = dropna(cells)
        /\ stdout.frequency_count = Len(freqs)
        /\ \E k \in 1..Len(freqs) : stdout.frequency_min = freqs[k].val
        /\ \E k \in 1..Len(freqs) : stdout.frequency_max = freqs[k].val
        /\ \A k \in 1..Len(freqs) :
              /\ stdout.frequency_min <= freqs[k].val
              /\ freqs[k].val <= stdout.frequency_max

\* C7 witness: a successful run in which an item was skipped and the extremes
\* lie outside the band.
ResultReflectsLoadedListWitness ==
    /\ stdout.status = "success"
    /\ CountOk(log) < Len(log)
    /\ stdout.frequency_count = Len(log)
    /\ stdout.frequency_min < 0
    /\ stdout.frequency_max * HZ_PER_THZ_UNIT > MAX_FREQUENCY_HZ

\* A number, of whatever type.
IsNumeric(x) == x.type \in {"int", "float", "float32"}

\* C8 as stated: thz_to_hz accepts exactly the finite numbers, returning
\* thz * 10^12, and raises ValueError for nan and for what is no number.
ThzToHzAcceptsExactlyFinite ==
    hz.called =>
        /\ hz.res.ok <=> (IsNumeric(hz.arg) /\ hz.arg.kind = "finite")
        /\ hz.res.ok =>
              hz.res.val = Num("float", hz.arg.val * HZ_PER_THZ_UNIT)
        /\ ~hz.res.ok => hz.res.exc = "ValueError"

\* C8 amended: thz_to_hz accepts exactly the ints and floats that are not nan,
\* the infinities included; it returns thz * 10^12 (an infinity stays itself)
\* and raises ValueError for everything else.
ThzToHzAcceptsIntOrFloatNotNaN ==
    hz.called =>
        /\ hz.res.ok <=> (hz.arg.type \in {"int", "float"} /\ hz.arg.kind # "nan")
        /\ (hz.res.ok /\ hz.arg.kind = "finite") =>
              hz.res.val = Num("float", hz.arg.val * HZ_PER_THZ_UNIT)
        /\ (hz.res.ok /\ hz.arg.kind # "finite") => hz.res.val = hz.arg
        /\ ~hz.res.ok => hz.res.exc = "ValueError"

\* C8 witness: an infinity was accepted and came back as itself.
ThzToHzAcceptsIntOrFloatNotNaNWitness ==
    /\ hz.called
    /\ hz.arg = PosInf
    /\ hz.res.ok
    /\ hz.res.val = PosInf

SaveErrorsReachMain ==
    caller = "main" =>
        /\ exports <= 1
        /\ save_result # "not_called" =>
              /\ pc \notin {"load", "adding", "added"}
              /\ Len(log) = Len(freqs)
              /\ exports = 1
        /\ save_result \notin {"not_called", "returned"} =>
              /\ pc \in {"except", "exit"}
              /\ raised = save_result
              /\ stdout.status # "success"
              /\ pc = "exit" =>
                    /\ stdout.status = "failed"
                    /\ stdout.error = save_result
                    /\ exit_code = 1

\* C10 witness: main has ended after the verification in save_audio failed.
SaveErrorsReachMainWitness ==
    /\ caller = "main"
    /\ pc = "exit"
    /\ save_result = "Audio file was not created"
    /\ stdout.status = "failed"
    /\ exit_code = 1
    /\ CountOk(log) >= 1

====
